---- MODULE Spec2Model ----
(***************************************************************************)
(* A model of project_pyratio: the crafter/factory rate model of           *)
(* factories.py and the abbreviation resolver of abbreviations.py.         *)
(*                                                                         *)
(* Python values are modelled as follows.                                  *)
(*   Fraction          a record [n, d] in lowest terms with d > 0          *)
(*   Rate, Time        the Fraction they wrap (per_second, seconds)        *)
(*   dict              a function whose DOMAIN is the set of keys          *)
(*   str               a sequence of one-character strings                 *)
(*   an exception      the field err of an operation's result              *)
(***************************************************************************)
EXTENDS Integers, Sequences, FiniteSets, TLC

VARIABLES
    goal,           \* Factory.goal: [quantity, product]
    crafters,       \* Factory.crafters: sequence of RecipeCrafter identities
    f_rates,        \* Factory._rates
    ignored_rates,  \* Factory.ignored_rates
    heap,           \* the RecipeCrafter objects made so far, by identity
    string_collection, \* AbbreviationResolver.string_collection
    lookup_table,   \* AbbreviationResolver.lookup_table
    db,             \* the DataBase: its entity collections and lookup tables
    last            \* the last call: its name, arguments, result and error

vars == <<goal, crafters, f_rates, ignored_rates, heap,
          string_collection, lookup_table, db, last>>

factoryVars == <<goal, crafters, f_rates, ignored_rates, heap>>
resolverVars == <<string_collection, lookup_table>>

-----------------------------------------------------------------------------
(* Bounds of the model *)

MaxCrafters == 2        \* RecipeCrafter objects made in one factory session
MaxIngredients == 2     \* ingredient entries on each side of a generated recipe
RecursionLimit == 3     \* depth at which the interpreter raises RecursionError
MaxShort == 2           \* length of a generated shorthand string
MaxLong == 3            \* length of a generated candidate string

-----------------------------------------------------------------------------
(* fractions.Fraction: exact rationals in lowest terms *)

Abs(x) == IF x < 0 THEN -x ELSE x

RECURSIVE Gcd(_, _)
Gcd(a, b) == IF b = 0 THEN a ELSE Gcd(b, a % b)

Fraction(n, d) ==
    LET g == Gcd(Abs(n), Abs(d))
        s == IF d < 0 THEN -1 ELSE 1
    IN  [n |-> (s * n) \div g, d |-> (s * d) \div g]

FInt(k) == [n |-> k, d |-> 1]
FAdd(x, y) == Fraction(x.n * y.d + y.n * x.d, x.d * y.d)
FSub(x, y) == Fraction(x.n * y.d - y.n * x.d, x.d * y.d)
FMul(x, y) == Fraction(x.n * y.n, x.d * y.d)
FDiv(x, y) == Fraction(x.n * y.d, x.d * y.n)
FNeg(x) == [n |-> -x.n, d |-> x.d]
FLt(x, y) == x.n * y.d < y.n * x.d
FLe(x, y) == x.n * y.d <= y.n * x.d

(* rates.py: Rate and Time wrap one Fraction each *)
Rate_zero == FInt(0)
Rate_neg(r) == FNeg(r)
Rate_add(r, s) == FAdd(r, s)
Rate_sub(r, s) == FSub(r, s)
Rate_mul(r, k) == FMul(r, k)            \* Rate * scalar -> Rate
Rate_truediv(r, s) == FDiv(r, s)        \* Rate / Rate -> Fraction
Time_truediv(t, k) == FDiv(t, k)        \* Time / scalar -> Time
Rate_of_Time(t) == FDiv(FInt(1), t)     \* Rate(Time)
Time_rtruediv(t, k) == Rate_of_Time(Time_truediv(t, k))  \* scalar / Time -> Rate

-----------------------------------------------------------------------------
(* dict *)

EmptyDict == <<>>
Keys(d) == DOMAIN d
IsEmpty(d) == DOMAIN d = {}
Get(d, k, default) == IF k \in DOMAIN d THEN d[k] ELSE default
Put(d, k, v) == [x \in (DOMAIN d) \cup {k} |-> IF x = k THEN v ELSE d[x]]

Range(s) == {s[i] : i \in DOMAIN s}

\* Body(value), with value computed once
Bind(value, Body(_)) == CHOOSE result \in {Body(x) : x \in {value}} : TRUE

-----------------------------------------------------------------------------
(* products.py, facilities.py, recipes.py: the immutable value types *)

ProductQuantity(quantity, product) == [quantity |-> quantity, product |-> product]

Facility(category, adjective, speed) ==
    [category |-> category, adjective |-> adjective, speed |-> speed]

RecipeValue(name, outputs, inputs, period, made_in) ==
    [name |-> name, outputs |-> outputs, inputs |-> inputs,
     period |-> period, made_in |-> made_in]

-----------------------------------------------------------------------------
(* factories.py: RecipeCrafter *)

NoError == "none"

\* RecipeCrafter.__init__: how_many <= 0 raises ValueError("RecipeProducer
\* should not have howmany <= 0"), the spec's NonPositiveMultiplicity
RecipeCrafter(recipe, facility, how_many) ==
    IF FLe(how_many, FInt(0))
    THEN [err |-> "NonPositiveMultiplicity", rc |-> <<>>]
    ELSE [err |-> NoError,
          rc |-> [recipe |-> recipe, facility |-> facility,
                  how_many |-> how_many, _rates |-> EmptyDict]]

\* the loop over self.recipe.outputs, from entry i on
RECURSIVE AddOutputs(_, _, _)
AddOutputs(rc, rates, i) ==
    IF i > Len(rc.recipe.outputs) THEN rates
    ELSE Bind(rates, LAMBDA d :
             LET output == rc.recipe.outputs[i]
                 recipe_rate == Time_rtruediv(rc.recipe.period,
                                              FInt(output.quantity))
                 total_rate == Rate_mul(Rate_mul(recipe_rate, rc.facility.speed),
                                        rc.how_many)
             IN  AddOutputs(rc,
                     Put(d, output.product,
                         Rate_add(Get(d, output.product, Rate_zero), total_rate)),
                     i + 1))

\* the loop over self.recipe.inputs, from entry i on
RECURSIVE SubInputs(_, _, _)
SubInputs(rc, rates, i) ==
    IF i > Len(rc.recipe.inputs) THEN rates
    ELSE Bind(rates, LAMBDA d :
             LET input_ == rc.recipe.inputs[i]
                 recipe_rate == Time_rtruediv(rc.recipe.period,
                                              FInt(input_.quantity))
                 total_rate == Rate_mul(Rate_mul(recipe_rate, rc.facility.speed),
                                        rc.how_many)
             IN  SubInputs(rc,
                     Put(d, input_.product,
                         Rate_sub(Get(d, input_.product, Rate_zero), total_rate)),
                     i + 1))

\* the input loop with `self._rates[p] = -total_rate`: an input overwrites
\* the entry an output of the same product made
RECURSIVE SubInputsOverwriting(_, _, _)
SubInputsOverwriting(rc, rates, i) ==
    IF i > Len(rc.recipe.inputs) THEN rates
    ELSE Bind(rates, LAMBDA d :
             LET input_ == rc.recipe.inputs[i]
                 recipe_rate == Time_rtruediv(rc.recipe.period,
                                              FInt(input_.quantity))
                 total_rate == Rate_mul(Rate_mul(recipe_rate, rc.facility.speed),
                                        rc.how_many)
             IN  SubInputsOverwriting(rc,
                     Put(d, input_.product, Rate_sub(Rate_zero, total_rate)),
                     i + 1))

_compute_rates_overwriting(rc) ==
    SubInputsOverwriting(rc, AddOutputs(rc, EmptyDict, 1), 1)

\* RecipeCrafter._compute_rates: the new value of self._rates
_compute_rates(rc) == SubInputs(rc, AddOutputs(rc, EmptyDict, 1), 1)

\* RecipeCrafter.rates, the property: it fills self._rates when that is
\* empty and then evaluates `self.rates` again, so every read re-enters the
\* property until the interpreter's recursion limit raises RecursionError.
\* The result carries the crafter as the read leaves it.
RECURSIVE RecipeCrafter_rates(_, _)
RecipeCrafter_rates(rc, depth) ==
    Bind(IF IsEmpty(rc._rates)
         THEN [rc EXCEPT !._rates = _compute_rates(rc)]
         ELSE rc,
         LAMBDA rc1 :
             IF depth >= RecursionLimit
             THEN [err |-> "RecursionError", rc |-> rc1, value |-> EmptyDict]
             ELSE RecipeCrafter_rates(rc1, depth + 1))

\* RecipeCrafter.with_goal.  The property is read three times with no
\* assignment in between; the reads after the first see the same value.
with_goal(recipe, facility, g) ==
    Bind(RecipeCrafter_rates(RecipeCrafter(recipe, facility, FInt(1)).rc, 0),
         LAMBDA read :
             LET p == g.product
                 rate == g.quantity
             IN  IF read.err # NoError
                 THEN [err |-> read.err, rc |-> <<>>]
                 ELSE IF p \notin Keys(read.value)
                         \/ FLe(read.value[p], Rate_zero)
                 THEN [err |-> "RecipeDoesNotProduce", rc |-> <<>>]
                 ELSE Bind([read.rc EXCEPT !.how_many =
                                FMul(@, Rate_truediv(rate, read.value[p]))],
                           LAMBDA rc2 :
                               [err |-> NoError,
                                rc |-> [rc2 EXCEPT !._rates = _compute_rates(rc2)]]))

-----------------------------------------------------------------------------
(* factories.py: Factory.  h is the heap of RecipeCrafter objects, cs the   *)
(* list self.crafters, g the goal; results carry the heap and self._rates  *)
(* as the call leaves them.                                                *)

\* `for product, rate in crafter.rates.items(): self._rates[product] = ...`
AddItems(rates, items) ==
    [p \in Keys(rates) \cup Keys(items) |->
        IF p \in Keys(items)
        THEN Rate_add(Get(rates, p, Rate_zero), items[p])
        ELSE rates[p]]

\* the loop over self.crafters, from entry i on
RECURSIVE SumCrafters(_, _, _, _)
SumCrafters(cs, h, rates, i) ==
    IF i > Len(cs) THEN [err |-> NoError, _rates |-> rates, heap |-> h]
    ELSE Bind(RecipeCrafter_rates(h[cs[i]], 0), LAMBDA read :
         Bind([h EXCEPT ![cs[i]] = read.rc], LAMBDA h1 :
             IF read.err # NoError
             THEN [err |-> read.err, _rates |-> rates, heap |-> h1]
             ELSE Bind(AddItems(rates, read.value), LAMBDA summed :
                      SumCrafters(cs, h1, summed, i + 1))))

\* Factory._compute_rates
Factory_compute_rates(g, cs, h) ==
    SumCrafters(cs, h, Put(EmptyDict, g.product, Rate_neg(g.quantity)), 1)

\* Factory.rates, the property
Factory_rates(g, cs, rates, h) ==
    IF IsEmpty(rates)
    THEN Factory_compute_rates(g, cs, h)
    ELSE [err |-> NoError, _rates |-> rates, heap |-> h]

\* Factory.is_ignored, given the value of self.rates
is_ignored(rates, ign, p) ==
    IF p \notin Keys(rates)
    THEN [err |-> "ValueError", value |-> FALSE]
    ELSE [err |-> NoError, value |-> Get(ign, p, FALSE)]

\* negative_rates without the is_ignored test
negative_rates_with_ignored(g, cs, rates, ign, h) ==
    Bind(Factory_rates(g, cs, rates, h), LAMBDA read :
        [err |-> read.err,
         value |-> [p \in {q \in Keys(read._rates) :
                              FLt(read._rates[q], Rate_zero)} |-> read._rates[p]],
         _rates |-> read._rates, heap |-> read.heap])

\* Factory.negative_rates
negative_rates(g, cs, rates, ign, h) ==
    Bind(Factory_rates(g, cs, rates, h), LAMBDA read :
        IF read.err # NoError
        THEN [err |-> read.err, value |-> EmptyDict,
              _rates |-> read._rates, heap |-> read.heap]
        ELSE [err |-> NoError,
              value |-> [p \in {q \in Keys(read._rates) :
                                   /\ ~is_ignored(read._rates, ign, q).value
                                   /\ FLt(read._rates[q], Rate_zero)}
                             |-> read._rates[p]],
              _rates |-> read._rates, heap |-> read.heap])

\* Factory.set_ignored
set_ignored(g, cs, rates, ign, h, p) ==
    Bind(Factory_rates(g, cs, rates, h), LAMBDA read :
        IF read.err # NoError
        THEN [err |-> read.err, ignored_rates |-> ign,
              _rates |-> read._rates, heap |-> read.heap]
        ELSE IF p \notin Keys(read._rates)
        THEN [err |-> "ValueError", ignored_rates |-> ign,
              _rates |-> read._rates, heap |-> read.heap]
        ELSE [err |-> NoError, ignored_rates |-> Put(ign, p, TRUE),
              _rates |-> read._rates, heap |-> read.heap])

\* Factory.set_all_ignored
set_all_ignored(g, cs, rates, ign, h) ==
    Bind(Factory_rates(g, cs, rates, h), LAMBDA read :
        IF read.err # NoError
        THEN [err |-> read.err, ignored_rates |-> ign,
              _rates |-> read._rates, heap |-> read.heap]
        ELSE [err |-> NoError,
              ignored_rates |-> [p \in Keys(ign) \cup Keys(read._rates) |->
                                    IF p \in Keys(read._rates) THEN TRUE
                                    ELSE ign[p]],
              _rates |-> read._rates, heap |-> read.heap])

\* connect_crafter without the `rc in self.crafters` test
connect_crafter_unchecked(g, cs, rates, h, rc) ==
    Bind(Factory_compute_rates(g, Append(cs, rc), h), LAMBDA computed :
        [err |-> computed.err, crafters |-> Append(cs, rc),
         _rates |-> computed._rates, heap |-> computed.heap])

\* Factory.connect_crafter; rc is the identity of a RecipeCrafter.
\* `rc in self.crafters` compares identities (RecipeCrafter defines no
\* __eq__).  ValueError("cannot connect same crafter to a factory twice") is
\* the spec's DuplicateCrafter.
connect_crafter(g, cs, rates, h, rc) ==
    IF rc \in Range(cs)
    THEN [err |-> "DuplicateCrafter", crafters |-> cs,
          _rates |-> rates, heap |-> h]
    ELSE Bind(Factory_compute_rates(g, Append(cs, rc), h), LAMBDA computed :
             [err |-> computed.err, crafters |-> Append(cs, rc),
              _rates |-> computed._rates, heap |-> computed.heap])

\* the part of upgrade_crafter after its tests
UpgradeAndRecompute(g, cs, h1, rc, upgrade_ratio) ==
    Bind([h1[rc] EXCEPT !.how_many = FMul(@, upgrade_ratio)], LAMBDA rc2 :
        Bind(Factory_compute_rates(g, cs,
                 [h1 EXCEPT ![rc] = [rc2 EXCEPT !._rates = _compute_rates(rc2)]]),
             LAMBDA computed :
                 [err |-> computed.err, _rates |-> computed._rates,
                  heap |-> computed.heap]))

\* Factory.upgrade_crafter.  The three ValueErrors are the spec's
\* CrafterNotConnected, CrafterDoesNotProduceTarget and
\* NonPositiveResultingRate; rc.rates[target] on a missing key is KeyError.
upgrade_crafter(g, cs, rates, h, rc, production_increase) ==
    IF rc \notin Range(cs)
    THEN [err |-> "CrafterNotConnected", _rates |-> rates, heap |-> h]
    ELSE Bind(RecipeCrafter_rates(h[rc], 0), LAMBDA read :
         Bind([h EXCEPT ![rc] = read.rc], LAMBDA h1 :
             LET target == production_increase.product
                 delta_rate == production_increase.quantity
                 failed(e) == [err |-> e, _rates |-> rates, heap |-> h1]
             IN  IF read.err # NoError THEN failed(read.err)
                 ELSE IF target \in Keys(read.value)
                         /\ FLe(read.value[target], Rate_zero)
                 THEN failed("CrafterDoesNotProduceTarget")
                 ELSE IF target \notin Keys(read.value) THEN failed("KeyError")
                 ELSE IF FLe(Rate_add(read.value[target], delta_rate), Rate_zero)
                 THEN failed("NonPositiveResultingRate")
                 ELSE UpgradeAndRecompute(g, cs, h1, rc,
                          Rate_truediv(Rate_add(read.value[target], delta_rate),
                                       read.value[target]))))

-----------------------------------------------------------------------------
(* abbreviations.py: Abbreviation.  A str is a sequence of characters, a    *)
(* compiled pattern a sequence of tokens.                                  *)

UpperAZ == {"A", "B", "C", "D", "E", "F", "G", "H", "I", "J", "K", "L", "M",
            "N", "O", "P", "Q", "R", "S", "T", "U", "V", "W", "X", "Y", "Z"}
LowerAZ == {"a", "b", "c", "d", "e", "f", "g", "h", "i", "j", "k", "l", "m",
            "n", "o", "p", "q", "r", "s", "t", "u", "v", "w", "x", "y", "z"}

\* str.isalpha, for a str that is not empty
isalpha(string) == \A i \in DOMAIN string : string[i] \in UpperAZ \cup LowerAZ

\* the pattern "[^A-Z]*"
NON_CAPITALS == [kind |-> "non_capitals"]
\* the patterns "^" and "$" and the pattern of one letter
Caret == [kind |-> "caret"]
Dollar == [kind |-> "dollar"]
Letter(c) == [kind |-> "letter", char |-> c]

\* str.join: sep between every two neighbouring items
RECURSIVE join(_, _)
join(sep, items) ==
    IF Len(items) <= 1 THEN items
    ELSE <<Head(items), sep>> \o join(sep, Tail(items))

\* join over the bare string: no "^", no "$" and no [^A-Z]* at either end
regex_of_bare_string(string) ==
    join(NON_CAPITALS, [i \in DOMAIN string |-> Letter(string[i])])

\* NON_CAPITALS.join(f"^{string}$"): the characters of "^" + string + "$"
\* with [^A-Z]* between every two of them
regex_of(string) ==
    join(NON_CAPITALS,
         <<Caret>> \o [i \in DOMAIN string |-> Letter(string[i])] \o <<Dollar>>)

\* Abbreviation.__init__; both ValueErrors are the spec's InvalidAbbreviation
Abbreviation(string) ==
    IF string = <<>> THEN [err |-> "InvalidAbbreviation", string |-> string,
                           regex |-> <<>>]
    ELSE IF ~isalpha(string)
    THEN [err |-> "InvalidAbbreviation", string |-> string, regex |-> <<>>]
    ELSE [err |-> NoError, string |-> string, regex |-> regex_of(string)]

\* re.match: can the tokens from i on match long_string from position j on
RECURSIVE re_match(_, _, _, _)
re_match(regex, i, long_string, j) ==
    IF i > Len(regex) THEN TRUE
    ELSE LET token == regex[i]
         IN  CASE token.kind = "caret" ->
                    j = 1 /\ re_match(regex, i + 1, long_string, j)
               [] token.kind = "dollar" ->
                    /\ \/ j = Len(long_string) + 1
                       \/ j = Len(long_string) /\ long_string[j] = "\n"
                    /\ re_match(regex, i + 1, long_string, j)
               [] token.kind = "letter" ->
                    /\ j <= Len(long_string)
                    /\ long_string[j] = token.char
                    /\ re_match(regex, i + 1, long_string, j + 1)
               [] token.kind = "non_capitals" ->
                    \/ re_match(regex, i + 1, long_string, j)
                    \/ /\ j <= Len(long_string)
                       /\ long_string[j] \notin UpperAZ
                       /\ re_match(regex, i, long_string, j + 1)

\* Abbreviation.abbreviates
abbreviates(abbrev, long_string) == re_match(abbrev.regex, 1, long_string, 1)

-----------------------------------------------------------------------------
(* abbreviations.py: AbbreviationResolver *)

\* _resolve_abbreviation that returns a match also when there are several
_resolve_abbreviation_any(collection, abbrev) ==
    LET possible_matches == {long_string \in collection :
                                abbreviates(abbrev, long_string)}
    IN  IF Cardinality(possible_matches) = 0
        THEN [err |-> "NoMatch", ret |-> <<>>]
        ELSE [err |-> NoError, ret |-> CHOOSE m \in possible_matches : TRUE]

\* AbbreviationResolver._resolve_abbreviation; the two ValueErrors are the
\* spec's AmbiguousAbbreviation and NoMatch
_resolve_abbreviation(collection, abbrev) ==
    LET possible_matches == {long_string \in collection :
                                abbreviates(abbrev, long_string)}
    IN  IF Cardinality(possible_matches) > 1
        THEN [err |-> "AmbiguousAbbreviation", ret |-> <<>>]
        ELSE IF Cardinality(possible_matches) = 0
        THEN [err |-> "NoMatch", ret |-> <<>>]
        ELSE [err |-> NoError, ret |-> CHOOSE m \in possible_matches : TRUE]

\* AbbreviationResolver.__call__: nothing is assigned to self.lookup_table
resolver_call(collection, table, abbrev_str) ==
    IF abbrev_str \in DOMAIN table
    THEN [err |-> NoError, ret |-> table[abbrev_str], lookup_table |-> table]
    ELSE LET abbrev == Abbreviation(abbrev_str)
             r == _resolve_abbreviation(collection, abbrev)
         IN  IF abbrev.err # NoError
             THEN [err |-> abbrev.err, ret |-> <<>>, lookup_table |-> table]
             ELSE [err |-> r.err, ret |-> r.ret, lookup_table |-> table]

-----------------------------------------------------------------------------
(* The game data and the arguments the factory session draws from *)

Products ==
    {"Iron Ingot", "Iron Ore", "Hydrogen", "Energetic Graphite", "Refined Oil"}

ArcSmelter == Facility("Smelter", "Arc", FInt(1))
PlaneSmelter == Facility("Smelter", "Plane", FInt(2))
Facilities == {ArcSmelter, PlaneSmelter}

\* 1 Iron Ingot from 1 Iron Ore every 1s
IronIngotRecipe ==
    RecipeValue("Iron Ingot",
        <<ProductQuantity(1, "Iron Ingot")>>,
        <<ProductQuantity(1, "Iron Ore")>>,
        FInt(1), "Smelter")

\* Hydrogen is both an output and an input
XRayCrackingRecipe ==
    RecipeValue("X-Ray Cracking",
        <<ProductQuantity(3, "Hydrogen"), ProductQuantity(1, "Energetic Graphite")>>,
        <<ProductQuantity(1, "Refined Oil"), ProductQuantity(2, "Hydrogen")>>,
        FInt(4), "Oil Refinery")

FactoryRecipes == {IronIngotRecipe, XRayCrackingRecipe}
FactoryFacilities == {ArcSmelter}
FactoryHowMany == {FInt(0), FInt(2)}
Goals == {ProductQuantity(FInt(2), "Iron Ingot"),
          ProductQuantity(FInt(0), "Iron Ingot"),
          ProductQuantity(FInt(-1), "Hydrogen")}
Targets == {ProductQuantity(FInt(2), "Iron Ingot"),
            ProductQuantity(FInt(-5), "Iron Ingot"),
            ProductQuantity(FInt(2), "Iron Ore"),
            ProductQuantity(FInt(-5), "Hydrogen")}
IgnoreArguments == {"Iron Ingot", "Iron Ore", "Hydrogen"}

\* the recipes, multiplicities and targets of the crafter session
GeneratedProducts == {"Hydrogen", "Refined Oil"}
Ingredients == {ProductQuantity(q, p) : q \in {1, 3}, p \in GeneratedProducts}
IngredientLists == UNION {[1..n -> Ingredients] : n \in 1..MaxIngredients}
GeneratedRecipes ==
    {RecipeValue("Generated", outputs, inputs, FInt(4), "Oil Refinery") :
        outputs \in IngredientLists, inputs \in IngredientLists}
CrafterRecipes == GeneratedRecipes \cup FactoryRecipes
CrafterHowMany == {FInt(0), Fraction(3, 2)}
CrafterTargets == {ProductQuantity(FInt(2), "Iron Ingot"),
                   ProductQuantity(Fraction(1, 2), "Hydrogen")}

-----------------------------------------------------------------------------
(* The factory session: one Factory and the crafters made for it *)

NoCall == [op |-> "none", err |-> NoError]

InitResolverIdle ==
    /\ string_collection = {}
    /\ lookup_table = EmptyDict

NoDataBase == "none"

\* no DataBase is made in this session
InitDataBaseIdle == db = NoDataBase

\* Factory.__init__
InitFactory ==
    /\ goal \in Goals
    /\ crafters = <<>>
    /\ f_rates = EmptyDict
    /\ ignored_rates = EmptyDict
    /\ heap = <<>>
    /\ last = NoCall
    /\ InitResolverIdle
    /\ InitDataBaseIdle

NewCrafter(recipes, facilities, howmanys) ==
    \E recipe \in recipes, facility \in facilities, how_many \in howmanys :
        \E r \in {RecipeCrafter(recipe, facility, how_many)} :
            /\ Len(heap) < MaxCrafters
            /\ heap' = IF r.err = NoError THEN Append(heap, r.rc) ELSE heap
            /\ last' = [op |-> "RecipeCrafter", err |-> r.err,
                        how_many |-> how_many]
            /\ UNCHANGED <<goal, crafters, f_rates, ignored_rates, resolverVars, db>>

WithGoal ==
    \E recipe \in CrafterRecipes, facility \in Facilities, g \in CrafterTargets :
        \E r \in {with_goal(recipe, facility, g)} :
            /\ Len(heap) < MaxCrafters
            /\ heap' = IF r.err = NoError THEN Append(heap, r.rc) ELSE heap
            /\ last' = [op |-> "with_goal", err |-> r.err, recipe |-> recipe,
                        facility |-> facility, goal |-> g, rc |-> r.rc]
            /\ UNCHANGED <<goal, crafters, f_rates, ignored_rates, resolverVars, db>>

ReadCrafterRates ==
    \E rc \in DOMAIN heap :
        \E r \in {RecipeCrafter_rates(heap[rc], 0)} :
            /\ heap' = [heap EXCEPT ![rc] = r.rc]
            /\ last' = [op |-> "RecipeCrafter.rates", err |-> r.err, rc |-> rc,
                        ret |-> r.value]
            /\ UNCHANGED <<goal, crafters, f_rates, ignored_rates, resolverVars, db>>

ConnectCrafter ==
    \E rc \in DOMAIN heap :
        \E r \in {connect_crafter(goal, crafters, f_rates, heap, rc)} :
            /\ crafters' = r.crafters
            /\ f_rates' = r._rates
            /\ heap' = r.heap
            /\ last' = [op |-> "connect_crafter", err |-> r.err, rc |-> rc]
            /\ UNCHANGED <<goal, ignored_rates, resolverVars, db>>

UpgradeCrafter ==
    \E rc \in DOMAIN heap, production_increase \in Targets :
        \E r \in {upgrade_crafter(goal, crafters, f_rates, heap, rc,
                                 production_increase)} :
            /\ f_rates' = r._rates
            /\ heap' = r.heap
            /\ last' = [op |-> "upgrade_crafter", err |-> r.err, rc |-> rc,
                        production_increase |-> production_increase]
            /\ UNCHANGED <<goal, crafters, ignored_rates, resolverVars, db>>

SetIgnored ==
    \E p \in IgnoreArguments :
        \E r \in {set_ignored(goal, crafters, f_rates, ignored_rates, heap, p)} :
            /\ ignored_rates' = r.ignored_rates
            /\ f_rates' = r._rates
            /\ heap' = r.heap
            /\ last' = [op |-> "set_ignored", err |-> r.err, product |-> p]
            /\ UNCHANGED <<goal, crafters, resolverVars, db>>

SetAllIgnored ==
    \E r \in {set_all_ignored(goal, crafters, f_rates, ignored_rates, heap)} :
        /\ ignored_rates' = r.ignored_rates
        /\ f_rates' = r._rates
        /\ heap' = r.heap
        /\ last' = [op |-> "set_all_ignored", err |-> r.err]
        /\ UNCHANGED <<goal, crafters, resolverVars, db>>

NegativeRates ==
    \E r \in {negative_rates(goal, crafters, f_rates, ignored_rates, heap)} :
        /\ f_rates' = r._rates
        /\ heap' = r.heap
        /\ last' = [op |-> "negative_rates", err |-> r.err, ret |-> r.value]
        /\ UNCHANGED <<goal, crafters, ignored_rates, resolverVars, db>>

NextFactory ==
    \/ NewCrafter(FactoryRecipes, FactoryFacilities, FactoryHowMany)
    \/ ConnectCrafter
    \/ UpgradeCrafter
    \/ SetIgnored
    \/ SetAllIgnored
    \/ NegativeRates

SpecFactory == InitFactory /\ [][NextFactory]_vars

-----------------------------------------------------------------------------
(* The crafter session: one call of either constructor of RecipeCrafter,    *)
(* then reads of the rates property of the crafter it made                 *)

NoFactory == "none"

\* no Factory is made in this session
InitFactoryIdle ==
    /\ goal = NoFactory
    /\ crafters = <<>>
    /\ f_rates = EmptyDict
    /\ ignored_rates = EmptyDict

InitCrafter ==
    /\ InitFactoryIdle
    /\ heap = <<>>
    /\ last = NoCall
    /\ InitResolverIdle
    /\ InitDataBaseIdle

\* the session's one constructor call
NewCrafterOnce ==
    /\ last = NoCall
    /\ NewCrafter(CrafterRecipes, Facilities, CrafterHowMany)

WithGoalOnce ==
    /\ last = NoCall
    /\ WithGoal

NextCrafter ==
    \/ NewCrafterOnce
    \/ WithGoalOnce
    \/ ReadCrafterRates

SpecCrafter == InitCrafter /\ [][NextCrafter]_vars

-----------------------------------------------------------------------------
(* The net rate of a crafter as the documentation defines it *)

\* sum over the entries of one side of the recipe that name product p of
\* (quantity / period) * facility.speed * multiplicity
RECURSIVE SideRate(_, _, _, _)
SideRate(rc, side, p, i) ==
    IF i > Len(side) THEN FInt(0)
    ELSE LET rest == SideRate(rc, side, p, i + 1)
         IN  IF side[i].product # p THEN rest
             ELSE FAdd(rest,
                       FMul(FMul(FDiv(FInt(side[i].quantity), rc.recipe.period),
                                 rc.facility.speed),
                            rc.how_many))

NetRate(rc, p) ==
    FSub(SideRate(rc, rc.recipe.outputs, p, 1), SideRate(rc, rc.recipe.inputs, p, 1))

RecipeProducts(recipe) ==
    {recipe.outputs[i].product : i \in DOMAIN recipe.outputs}
        \cup {recipe.inputs[i].product : i \in DOMAIN recipe.inputs}

RECURSIVE SumNetRates(_, _)
SumNetRates(cs, p) ==
    IF cs = <<>> THEN FInt(0)
    ELSE FAdd(NetRate(heap[Head(cs)], p), SumNetRates(Tail(cs), p))

\* the Factory's rate map as a caller reads it
FactoryRateMap == Factory_rates(goal, crafters, f_rates, heap)._rates

Ignored(p) == p \in DOMAIN ignored_rates /\ ignored_rates[p]

-----------------------------------------------------------------------------
(* Claims about the Factory, checked under SpecFactory *)

\* C1: after construction and after every connect_crafter, upgrade_crafter,
\* set_ignored and set_all_ignored call, the Factory's rate map holds, for
\* every product, -goal.quantity at goal.product (0 elsewhere) plus the sum of
\* the connected crafters' current net rates for the product.
C1_RateMapIsGoalPlusCrafters ==
    \A p \in Products :
        Get(FactoryRateMap, p, Rate_zero) =
            FAdd(IF p = goal.product THEN FNeg(goal.quantity) ELSE FInt(0),
                 SumNetRates(crafters, p))

\* C2: negative_rates() returns exactly the products whose rate in the
\* Factory's rate map is strictly negative and that are not marked ignored:
\* no ignored product, no product with rate >= 0, and no such product omitted.
C2_NegativeRatesExact ==
    \E r \in {negative_rates(goal, crafters, f_rates, ignored_rates, heap)} :
        /\ r.err = NoError
        /\ \A p \in DOMAIN r.value :
               /\ ~Ignored(p)
               /\ p \in DOMAIN FactoryRateMap
               /\ ~FLe(FInt(0), FactoryRateMap[p])
               /\ r.value[p] = FactoryRateMap[p]
        /\ \A p \in DOMAIN FactoryRateMap :
               (~Ignored(p) /\ FLt(FactoryRateMap[p], FInt(0)))
                   => p \in DOMAIN r.value
        /\ (last.op = "negative_rates" => last.err = NoError /\ last.ret = r.value)

C2_Witness ==
    /\ last.op = "negative_rates"
    /\ last.ret # EmptyDict
    /\ \E p \in DOMAIN FactoryRateMap : FLt(FactoryRateMap[p], FInt(0))

\* a step that is the call upgrade_crafter(rc, production_increase)
UpgradeStep(rc, production_increase) ==
    /\ last'.op = "upgrade_crafter"
    /\ last'.rc = rc
    /\ last'.production_increase = production_increase

\* C4: upgrade_crafter(c, delta) on a connected crafter whose net rate for
\* delta.product is strictly positive, with current rate + delta <= 0, fails
\* with NonPositiveResultingRate and leaves the crafter's multiplicity, the
\* crafter's rate map and the Factory's rate map unchanged.
C4_UpgradeToNonPositiveFails ==
    [][\A rc \in DOMAIN heap, d \in Targets :
          (/\ UpgradeStep(rc, d)
           /\ rc \in Range(crafters)
           /\ FLt(FInt(0), NetRate(heap[rc], d.product))
           /\ FLe(FAdd(NetRate(heap[rc], d.product), d.quantity), FInt(0)))
          => /\ last'.err = "NonPositiveResultingRate"
             /\ heap'[rc].how_many = heap[rc].how_many
             /\ heap'[rc]._rates = heap[rc]._rates
             /\ f_rates' = f_rates]_vars

\* C5: upgrade_crafter(c, delta) on a connected crafter fails with
\* CrafterDoesNotProduceTarget whenever the crafter's net rate for
\* delta.product is not strictly positive, also for a product that is not in
\* the crafter's recipe; the multiplicity is unchanged.
C5_UpgradeOfNonProducerFails ==
    [][\A rc \in DOMAIN heap, d \in Targets :
          (/\ UpgradeStep(rc, d)
           /\ rc \in Range(crafters)
           /\ ~FLt(FInt(0), NetRate(heap[rc], d.product)))
          => /\ last'.err = "CrafterDoesNotProduceTarget"
             /\ heap'[rc].how_many = heap[rc].how_many]_vars

NoDuplicateCrafter ==
    \A i, j \in DOMAIN crafters : crafters[i] = crafters[j] => i = j

\* C6: connect_crafter(c) on a Factory that has c connected fails with
\* DuplicateCrafter and leaves the crafter list and the rate map unchanged;
\* otherwise it appends c.  No crafter occurs twice in the crafter list.
C6_ConnectCrafterNoDuplicate ==
    /\ [][\A rc \in DOMAIN heap :
             (last'.op = "connect_crafter" /\ last'.rc = rc)
             => IF rc \in Range(crafters)
                THEN /\ last'.err = "DuplicateCrafter"
                     /\ crafters' = crafters
                     /\ f_rates' = f_rates
                ELSE crafters' = Append(crafters, rc)]_vars
    /\ []NoDuplicateCrafter

C6_Witness ==
    /\ last.op = "connect_crafter"
    /\ last.err = "DuplicateCrafter"
    /\ Len(crafters) = 2

-----------------------------------------------------------------------------
(* Claims about one RecipeCrafter, checked under SpecCrafter *)

\* C3: when the unit (multiplicity 1) net rate of the recipe on the facility
\* for target.product is strictly positive, with_goal returns a crafter of
\* multiplicity target.rate / unit_rate whose net rate for target.product is
\* target.rate.
C3_WithGoalMeetsTarget ==
    (last.op = "with_goal") =>
        LET unit == RecipeCrafter(last.recipe, last.facility, FInt(1)).rc
            unit_rate == NetRate(unit, last.goal.product)
        IN  FLt(FInt(0), unit_rate) =>
                /\ last.err = NoError
                /\ last.rc.how_many = FDiv(last.goal.quantity, unit_rate)
                /\ NetRate(last.rc, last.goal.product) = last.goal.quantity

\* C7: a crafter's net rate map holds, for each product, the sum over the
\* recipe's outputs of that product of (qty / period) * speed * multiplicity
\* minus the same sum over its inputs of that product.
C7_NetRateSumsBothSides ==
    \A i \in DOMAIN heap :
        LET computed == _compute_rates(heap[i])
        IN  /\ DOMAIN computed = RecipeProducts(heap[i].recipe)
            /\ \A p \in DOMAIN computed : computed[p] = NetRate(heap[i], p)
            /\ IsEmpty(heap[i]._rates) \/ heap[i]._rates = computed

C7_Witness ==
    \E i \in DOMAIN heap :
        /\ ~IsEmpty(heap[i]._rates)
        /\ \E p \in DOMAIN heap[i]._rates :
               /\ \E k \in DOMAIN heap[i].recipe.outputs :
                      heap[i].recipe.outputs[k].product = p
               /\ \E k \in DOMAIN heap[i].recipe.inputs :
                      heap[i].recipe.inputs[k].product = p
               /\ heap[i]._rates[p] # FInt(0)

\* C24: a read of a RecipeCrafter's net-rate map through its rates accessor
\* terminates and returns the map _compute_rates gives for the crafter's
\* current recipe, facility and multiplicity, computed on first access when
\* it had not been computed.
C24_RatesAccessorReturnsTheMap ==
    last.op = "RecipeCrafter.rates" =>
        /\ last.err = NoError
        /\ last.ret = _compute_rates(heap[last.rc])

-----------------------------------------------------------------------------
(* The abbreviation session: Abbreviation(string), then one call of its    *)
(* abbreviates(long_string), over generated strings; and the resolver      *)
(* session: one AbbreviationResolver over a set of names and calls of it   *)

Alphabet == {"X", "C", "a", "-"}
StringsUpTo(n) == UNION {[1..k -> Alphabet] : k \in 0..n}

XRC == <<"X", "R", "C">>
ZZZ == <<"Z", "Z", "Z">>
IO == <<"I", "O">>
XRCra == <<"X", "R", "C", "r", "a">>
XRayCracking ==
    <<"X", "-", "R", "a", "y", " ", "C", "r", "a", "c", "k", "i", "n", "g">>
XRayCrystallography ==
    <<"X", "-", "R", "a", "y", " ", "C", "r", "y", "s", "t", "a", "l", "l",
      "o", "g", "r", "a", "p", "h", "y">>
IronOre == <<"I", "r", "o", "n", " ", "O", "r", "e">>

Shorthands == StringsUpTo(MaxShort) \cup {XRC, ZZZ, IO, XRCra}
Names == {XRayCracking, XRayCrystallography, IronOre,
          <<"X", "-", "C">>, <<"X", "a", "C">>}

InitAbbreviation ==
    /\ InitFactoryIdle
    /\ heap = <<>>
    /\ InitResolverIdle
    /\ last = NoCall
    /\ InitDataBaseIdle

\* Abbreviation(string), the session's first call
NewAbbreviation ==
    \E string \in StringsUpTo(MaxShort) \cup {XRC} :
        LET abbrev == Abbreviation(string)
        IN  /\ last = NoCall
            /\ last' = [op |-> "Abbreviation", err |-> abbrev.err,
                        string |-> string, ret |-> abbrev]
            /\ UNCHANGED <<factoryVars, resolverVars, db>>

\* abbreviates(long_string) on the Abbreviation the first call returned
Abbreviates ==
    \E long_string \in StringsUpTo(MaxLong) \cup {XRayCracking} :
        /\ last.op = "Abbreviation"
        /\ last.err = NoError
        /\ last' = [op |-> "abbreviates", err |-> NoError,
                    string |-> last.ret.string, long_string |-> long_string,
                    ret |-> abbreviates(last.ret, long_string)]
        /\ UNCHANGED <<factoryVars, resolverVars, db>>

NextAbbreviation ==
    \/ NewAbbreviation
    \/ Abbreviates

SpecAbbreviation == InitAbbreviation /\ [][NextAbbreviation]_vars

\* AbbreviationResolver.__init__
InitResolver ==
    /\ InitFactoryIdle
    /\ heap = <<>>
    /\ string_collection \in SUBSET Names
    /\ lookup_table = EmptyDict
    /\ last = NoCall
    /\ InitDataBaseIdle

Resolve ==
    \E abbrev_str \in Shorthands :
        \E r \in {resolver_call(string_collection, lookup_table, abbrev_str)} :
            /\ lookup_table' = r.lookup_table
            /\ last' = [op |-> "resolve", err |-> r.err,
                        abbrev_str |-> abbrev_str, ret |-> r.ret]
            /\ UNCHANGED <<factoryVars, string_collection, db>>

NextResolver == Resolve

SpecResolver == InitResolver /\ [][NextResolver]_vars

-----------------------------------------------------------------------------
(* Claims about abbreviations *)

\* the characters of string occur in long_string in order, at the places f,
\* and every character of long_string at no such place is not in A-Z
Embeds(string, long_string) ==
    \E f \in [DOMAIN string -> DOMAIN long_string] :
        /\ \A i, k \in DOMAIN string : i < k => f[i] < f[k]
        /\ \A i \in DOMAIN string : long_string[f[i]] = string[i]
        /\ \A j \in DOMAIN long_string :
               long_string[j] \in UpperAZ => \E i \in DOMAIN string : f[i] = j

\* C8: for a non-empty alphabetic shorthand S and a string L,
\* Abbreviation(S).abbreviates(L) is true exactly when the characters of S
\* occur in L in order as exact matches, every uppercase letter (A-Z) of L is
\* matched by a character of S and every skipped character is not uppercase.
C8_AbbreviatesIffEmbeds ==
    /\ (last.op = "Abbreviation" /\ last.string # <<>> /\ isalpha(last.string))
           => last.err = NoError
    /\ (last.op = "abbreviates")
           => last.ret = Embeds(last.string, last.long_string)

C8_Witness ==
    /\ last.op = "abbreviates"
    /\ last.string = XRC
    /\ last.long_string = XRayCracking
    /\ last.ret = TRUE

\* C9: for an uncached valid shorthand, resolve returns the full name when
\* exactly one candidate is abbreviated by it, fails with NoMatch when none
\* is and with AmbiguousAbbreviation when more than one is; an empty or
\* non-alphabetic shorthand fails with InvalidAbbreviation.
C9_ResolveOutcome ==
    (last.op = "resolve" /\ last.abbrev_str \notin DOMAIN lookup_table) =>
        LET matches == {long_string \in string_collection :
                           Embeds(last.abbrev_str, long_string)}
        IN  IF last.abbrev_str = <<>> \/ ~isalpha(last.abbrev_str)
            THEN last.err = "InvalidAbbreviation"
            ELSE /\ Cardinality(matches) = 1 =>
                        last.err = NoError /\ last.ret \in matches
                 /\ Cardinality(matches) = 0 => last.err = "NoMatch"
                 /\ Cardinality(matches) > 1 =>
                        last.err = "AmbiguousAbbreviation"

C9_Witness ==
    /\ last.op = "resolve"
    /\ last.abbrev_str = XRC
    /\ string_collection = {XRayCracking, XRayCrystallography}
    /\ last.err = "AmbiguousAbbreviation"

\* C10: after a successful resolve(s) the resolver's cache maps s to the
\* returned full name; a failed resolve adds nothing to the cache.
C10_ResolveCaches ==
    last.op = "resolve" =>
        IF last.err = NoError
        THEN /\ last.abbrev_str \in DOMAIN lookup_table
             /\ lookup_table[last.abbrev_str] = last.ret
        ELSE last.abbrev_str \notin DOMAIN lookup_table

-----------------------------------------------------------------------------
(* str.strip, products.py: Product, and recipes.py: Recipe.__init__.  In    *)
(* this part of the model names are sequences of characters.               *)

Whitespace == {" "}

RECURSIVE lstrip(_)
lstrip(string) ==
    IF string # <<>> /\ Head(string) \in Whitespace THEN lstrip(Tail(string))
    ELSE string

RECURSIVE rstrip(_)
rstrip(string) ==
    IF string # <<>> /\ string[Len(string)] \in Whitespace
    THEN rstrip(SubSeq(string, 1, Len(string) - 1))
    ELSE string

strip(string) == rstrip(lstrip(string))

\* Product.__init__
Product(name) ==
    IF strip(name) = <<>>
    THEN [err |-> "ValueError", value |-> <<>>]
    ELSE [err |-> NoError, value |-> [name |-> strip(name)]]

\* the name argument `None`: distinct from every str
None == <<"None">>

\* hash(int) for |n| < 2^61 - 1: the integer itself, except hash(-1) == -2
hash_int(n) == IF n = -1 THEN -2 ELSE n

CharCodes ==
    <<" ", "#", "(", ")", ".", "<", ">", "^",
      "0", "1", "2", "3", "4", "5", "6", "7", "8", "9",
      "A", "B", "C", "D", "E", "F", "G", "H", "I", "J", "K", "L", "M",
      "N", "O", "P", "Q", "R", "S", "T", "U", "V", "W", "X", "Y", "Z",
      "a", "b", "c", "d", "e", "f", "g", "h", "i", "j", "k", "l", "m",
      "n", "o", "p", "q", "r", "s", "t", "u", "v", "w", "x", "y", "z">>
ord(c) == CHOOSE i \in DOMAIN CharCodes : CharCodes[i] = c

\* hash(str) is seeded per process; this is the hash under one seed,
\* distinct for distinct names
RECURSIVE str_hash(_)
str_hash(string) ==
    IF string = <<>> THEN 0
    ELSE str_hash(SubSeq(string, 1, Len(string) - 1)) * (Len(CharCodes) + 1)
             + ord(string[Len(string)])

\* the dataclass hash of a ProductQuantity, hash((quantity, product)): a
\* function of the two fields' hashes
hash_ProductQuantity(pq) == <<hash_int(pq.quantity), str_hash(pq.product.name)>>

\* the order of two such keys
key_lt(a, b) == a[1] < b[1] \/ (a[1] = b[1] /\ a[2] < b[2])

\* sorted(list, key=key): a stable sort, entries of equal key keep the order
\* they have in list
sorted(list, key(_)) ==
    LET before(i, j) == \/ key_lt(key(list[i]), key(list[j]))
                        \/ key(list[i]) = key(list[j]) /\ i < j
        place(i) == 1 + Cardinality({j \in DOMAIN list : before(j, i)})
    IN  [k \in DOMAIN list |-> list[CHOOSE i \in DOMAIN list : place(i) = k]]

\* Recipe.__init__.  `autoname` is bound only when there is one output;
\* reading it unbound raises UnboundLocalError.  The ValueErrors are named
\* after their messages.
Recipe(name, outputs, inputs, period, made_in) ==
    LET failed(e) == [err |-> e, value |-> <<>>]
        name1 == IF name = None THEN outputs[1].product.name ELSE name
        cleaned_name == strip(name1)
    IN  IF name = None /\ Len(outputs) # 1 THEN failed("UnboundLocalError")
        ELSE IF cleaned_name = <<>> THEN failed("EmptyRecipeName")
        ELSE IF Len(outputs) < 1 THEN failed("EmptyOutputCollection")
        ELSE IF Len(inputs) < 1 THEN failed("EmptyInputCollection")
        ELSE [err |-> NoError,
              value |-> RecipeValue(cleaned_name,
                                    sorted(outputs, hash_ProductQuantity),
                                    sorted(inputs, hash_ProductQuantity),
                                    period, made_in)]

\* the dataclass hash of a Recipe: a function of its fields' hashes
hash_Recipe(r) ==
    <<str_hash(r.name),
      [i \in DOMAIN r.outputs |-> hash_ProductQuantity(r.outputs[i])],
      [i \in DOMAIN r.inputs |-> hash_ProductQuantity(r.inputs[i])],
      r.period, r.made_in>>

-----------------------------------------------------------------------------
(* The recipe session: one call Recipe(...) and then a second call with the *)
(* same arguments, the two lists reordered                                 *)

ProductA == Product(<<"A">>).value
ProductB == Product(<<"B">>).value
RecipeIngredients ==
    {ProductQuantity(q, ProductA) : q \in {1, -1, -2}}
        \cup {ProductQuantity(1, ProductB)}
RecipeIngredientLists ==
    UNION {[1..n -> RecipeIngredients] : n \in 0..MaxIngredients}
RecipeNames == {None, <<"N">>, <<" ">>, <<" ", "N">>}
Smelter == [name |-> <<"S">>]
OneSecond == FInt(1)

Orderings(n) == {f \in [1..n -> 1..n] : \A i, j \in 1..n : f[i] = f[j] => i = j}
Reordered(list, f) == [i \in DOMAIN list |-> list[f[i]]]

InitRecipe ==
    /\ InitFactoryIdle
    /\ heap = <<>>
    /\ InitResolverIdle
    /\ InitDataBaseIdle
    /\ last = NoCall

NewRecipe ==
    \E name \in RecipeNames, outputs \in RecipeIngredientLists,
       inputs \in RecipeIngredientLists :
        \E r \in {Recipe(name, outputs, inputs, OneSecond, Smelter)} :
            /\ last = NoCall
            /\ last' = [op |-> "Recipe", err |-> r.err, name |-> name,
                        outputs |-> outputs, inputs |-> inputs, ret |-> r.value]
            /\ UNCHANGED <<factoryVars, resolverVars, db>>

NewRecipeReordered ==
    /\ last.op = "Recipe"
    /\ \E f \in Orderings(Len(last.outputs)),
          g \in Orderings(Len(last.inputs)) :
          \E r \in {Recipe(last.name, Reordered(last.outputs, f),
                           Reordered(last.inputs, g), OneSecond, Smelter)} :
              /\ last' = [op |-> "Recipe.reordered", err |-> r.err,
                          name |-> last.name,
                          outputs |-> Reordered(last.outputs, f),
                          inputs |-> Reordered(last.inputs, g),
                          ret |-> r.value,
                          first |-> [err |-> last.err, ret |-> last.ret,
                                     outputs |-> last.outputs,
                                     inputs |-> last.inputs]]
              /\ UNCHANGED <<factoryVars, resolverVars, db>>

NextRecipe ==
    \/ NewRecipe
    \/ NewRecipeReordered

SpecRecipe == InitRecipe /\ [][NextRecipe]_vars

-----------------------------------------------------------------------------
(* Claims about Recipe, checked under SpecRecipe *)

\* C11: for every name, period and category and every two orderings of the
\* same multiset of outputs and the same multiset of inputs, the two Recipes
\* have identical stored outputs and inputs, compare equal and hash equal,
\* also when two distinct entries share a sort key.
C11_RecipeEqualityIgnoresArgumentOrder ==
    (last.op = "Recipe.reordered" /\ last.first.err = NoError) =>
        /\ last.err = NoError
        /\ last.ret.outputs = last.first.ret.outputs
        /\ last.ret.inputs = last.first.ret.inputs
        /\ last.ret = last.first.ret
        /\ hash_Recipe(last.ret) = hash_Recipe(last.first.ret)

\* C12: a Recipe constructed with no explicit name takes the name of its sole
\* output when it has exactly one output; with more than one output or none
\* the construction fails with a data-validation error, not with an undefined
\* default name.
C12_DefaultNameOrValidationError ==
    (last.op = "Recipe" /\ last.name = None) =>
        IF Len(last.outputs) = 1
        THEN \/ last.err = NoError /\ last.ret.name = last.outputs[1].product.name
             \/ last.err = "EmptyInputCollection" /\ last.inputs = <<>>
        ELSE last.err \in {"NameRequiredForMultiOutputRecipe",
                           "EmptyOutputCollection", "EmptyInputCollection"}

-----------------------------------------------------------------------------
(* recipe_readers.py: the three line patterns and the parsers of one block. *)
(* A line is a sequence of characters, a block a sequence of lines; list    *)
(* indices are 1-based here, 0-based in the source.                         *)

DigitChars == <<"0", "1", "2", "3", "4", "5", "6", "7", "8", "9">>
Digits == Range(DigitChars)
DigitValue(c) == (CHOOSE i \in DOMAIN DigitChars : DigitChars[i] = c) - 1

\* the length of the longest prefix of string made of characters of set
RECURSIVE Run(_, _)
Run(string, set) ==
    IF string # <<>> /\ Head(string) \in set THEN 1 + Run(Tail(string), set)
    ELSE 0

Drop(string, n) == SubSeq(string, n + 1, Len(string))
Take(string, n) == SubSeq(string, 1, n)

no_match == [matched |-> FALSE]

\* re.match(INGREDIENT_LINE_REGEX, line), r"^([0-9]+) +(.+)$": the digits,
\* then the spaces, of which the last is given to (.+) when nothing follows
match_ingredient_line(line) ==
    LET k == Run(line, Digits)
        m == Run(Drop(line, k), {" "})
        rest == Drop(line, k + m)
    IN  IF k >= 1 /\ m >= 1 /\ rest # <<>>
        THEN [matched |-> TRUE, g1 |-> Take(line, k), g2 |-> rest]
        ELSE IF k >= 1 /\ m >= 2
        THEN [matched |-> TRUE, g1 |-> Take(line, k), g2 |-> <<" ">>]
        ELSE no_match

\* re.match(ARROW_LINE_REGEX, line), r"^\^ *([0-9.]+) *s *\((.+)\)$"
match_arrow_line(line) ==
    LET a == IF line # <<>> /\ Head(line) = "^" THEN Tail(line) ELSE <<"!">>
        b == Drop(a, Run(a, {" "}))
        k == Run(b, Digits \cup {"."})
        c == Drop(b, k + Run(Drop(b, k), {" "}))
        d == IF c # <<>> /\ Head(c) = "s" THEN Tail(c) ELSE <<"!">>
        e == Drop(d, Run(d, {" "}))
    IN  IF /\ k >= 1
           /\ Len(e) >= 3
           /\ Head(e) = "("
           /\ e[Len(e)] = ")"
        THEN [matched |-> TRUE, g1 |-> Take(b, k),
              g2 |-> SubSeq(e, 2, Len(e) - 1)]
        ELSE no_match

\* re.match(NAMETAG_LINE_REGEX, line), r"^<> *(.+)$"
match_nametag_line(line) ==
    LET a == Drop(line, 2)
        m == Run(a, {" "})
        rest == Drop(a, m)
    IN  IF Len(line) < 2 \/ Take(line, 2) # <<"<", ">">> THEN no_match
        ELSE IF rest # <<>> THEN [matched |-> TRUE, g1 |-> rest]
        ELSE IF m >= 1 THEN [matched |-> TRUE, g1 |-> <<" ">>]
        ELSE no_match

\* int(number_string) of a string of digits
RECURSIVE int(_)
int(string) ==
    IF string = <<>> THEN 0
    ELSE 10 * int(Take(string, Len(string) - 1)) + DigitValue(string[Len(string)])

RECURSIVE Power10(_)
Power10(n) == IF n = 0 THEN 1 ELSE 10 * Power10(n - 1)

\* rational_utilities.read_rational on a string of digits and dots:
\* Fraction(string) reads a decimal with at most one point and at least one
\* digit, and raises ValueError otherwise
read_rational(string) ==
    LET dots == {i \in DOMAIN string : string[i] = "."}
        digits == SelectSeq(string, LAMBDA c : c \in Digits)
    IN  IF Cardinality(dots) > 1 \/ digits = <<>>
        THEN [err |-> "ValueError", value |-> FInt(0)]
        ELSE [err |-> NoError,
              value |-> Fraction(int(digits),
                                 IF dots = {} THEN 1
                                 ELSE Power10(Len(string)
                                                - (CHOOSE i \in dots : TRUE)))]

\* FacilityCategory.__init__
FacilityCategory(name) ==
    IF strip(name) = <<>>
    THEN [err |-> "ValueError", value |-> <<>>]
    ELSE [err |-> NoError, value |-> [name |-> strip(name)]]

\* _parse_ingredient: the ProductQuantity of line i, or None (is_None)
_parse_ingredient(recipe_block, i) ==
    LET none == [err |-> NoError, is_None |-> TRUE, value |-> <<>>]
    IN  IF i < 1 \/ i > Len(recipe_block) THEN none
        ELSE LET m == match_ingredient_line(recipe_block[i])
             IN  IF ~m.matched THEN none
                 ELSE IF Product(m.g2).err # NoError
                 THEN [err |-> "ValueError", is_None |-> TRUE, value |-> <<>>]
                 ELSE [err |-> NoError, is_None |-> FALSE,
                       value |-> ProductQuantity(int(m.g1), Product(m.g2).value)]

\* _parse_arrow_line
_parse_arrow_line(recipe_block, i) ==
    LET failed(e) == [err |-> e, period |-> FInt(0), made_in |-> <<>>]
    IN  IF i < 1 \/ i > Len(recipe_block) THEN failed("ArrowLineOutOfBounds")
        ELSE LET m == match_arrow_line(recipe_block[i])
             IN  IF ~m.matched THEN failed("MalformedArrowLine")
                 ELSE IF read_rational(m.g1).err # NoError THEN failed("ValueError")
                 ELSE IF FacilityCategory(m.g2).err # NoError
                 THEN failed("ValueError")
                 ELSE [err |-> NoError, period |-> read_rational(m.g1).value,
                       made_in |-> FacilityCategory(m.g2).value]

\* _parse_nametag_line: `if i == len(recipe_block) - 1` raises on the last
\* line of the block; on any other line the line is matched
_parse_nametag_line(recipe_block, i) ==
    IF i < 1 \/ i > Len(recipe_block) THEN [err |-> NoError, value |-> None]
    ELSE IF i = Len(recipe_block)
    THEN [err |-> "NametagBeforeEnd", value |-> None]
    ELSE LET m == match_nametag_line(recipe_block[i])
         IN  IF ~m.matched THEN [err |-> "MalformedNametagLine", value |-> None]
             ELSE [err |-> NoError, value |-> m.g1]

\* the two `while ingredient is not None` loops of read_recipe, from line i
RECURSIVE ParseIngredients(_, _, _)
ParseIngredients(recipe_block, i, list) ==
    Bind(_parse_ingredient(recipe_block, i), LAMBDA ingredient :
        IF ingredient.err # NoError
        THEN [err |-> ingredient.err, list |-> list, i |-> i]
        ELSE IF ingredient.is_None
        THEN [err |-> NoError, list |-> list, i |-> i]
        ELSE ParseIngredients(recipe_block, i + 1,
                              Append(list, ingredient.value)))

\* read_recipe
read_recipe(recipe_block) ==
    LET failed(e) == [err |-> e, value |-> <<>>]
    IN  Bind(ParseIngredients(recipe_block, 1, <<>>), LAMBDA r_outputs :
        IF r_outputs.err # NoError THEN failed(r_outputs.err)
        ELSE
        Bind(_parse_arrow_line(recipe_block, r_outputs.i), LAMBDA arrow :
        IF arrow.err # NoError THEN failed(arrow.err)
        ELSE
        Bind(ParseIngredients(recipe_block, r_outputs.i + 1, <<>>),
             LAMBDA r_inputs :
        IF r_inputs.err # NoError THEN failed(r_inputs.err)
        ELSE
        Bind(_parse_nametag_line(recipe_block, r_inputs.i), LAMBDA r_name :
        IF r_name.err # NoError THEN failed(r_name.err)
        ELSE Recipe(r_name.value, r_outputs.list, r_inputs.list,
                    arrow.period, arrow.made_in)))))

-----------------------------------------------------------------------------
(* databases.py: DataBase.__init__ and the fields the loaders fill; the    *)
(* named rates and times are left out                                      *)

DataBase(facility_categories, facilities, products, recipes) ==
    [facility_categories |-> facility_categories,
     facilities |-> facilities,
     products |-> products,
     recipes |-> recipes,
     lookup_table_facilities |-> EmptyDict,
     lookup_table_recipes |-> EmptyDict]

-----------------------------------------------------------------------------
(* recipe_readers.py: read_recipe_file, from the lines f.readlines() gave *)

\* re.match(COMMENT_LINE_REGEX, line), r"^\#.*$"
match_comment_line(line) == line # <<>> /\ Head(line) = "#"

\* the loop `for i, line in enumerate(file_lines)`, from line i on.  The
\* ingredient branch reads `productname`, a name bound nowhere: NameError.
RECURSIVE SubstituteNames(_, _, _, _, _)
SubstituteNames(file_lines, i, all_products, all_categories, table) ==
    IF i > Len(file_lines) THEN [err |-> NoError, file_lines |-> file_lines]
    ELSE
    Bind(file_lines, LAMBDA lines :
        LET m == match_ingredient_line(lines[i])
            a == match_arrow_line(lines[i])
        IN  IF m.matched
            THEN IF m.g2 \notin all_products
                 THEN [err |-> "NameError", file_lines |-> lines]
                 ELSE SubstituteNames(lines, i + 1, all_products,
                                      all_categories, table)
            ELSE IF a.matched /\ a.g2 \notin all_categories
            THEN Bind(resolver_call(all_categories, table, a.g2), LAMBDA r :
                     IF r.err # NoError
                     THEN [err |-> r.err, file_lines |-> lines]
                     ELSE SubstituteNames(
                              [lines EXCEPT ![i] =
                                  <<"^", " ">> \o a.g1 \o <<" ", "s", " ", "(">>
                                      \o r.ret \o <<")">>],
                              i + 1, all_products, all_categories,
                              r.lookup_table))
            ELSE SubstituteNames(lines, i + 1, all_products, all_categories,
                                 table))

\* _split_on_blank_lines; current_block_start 0 is None
RECURSIVE SplitLoop(_, _, _, _)
SplitLoop(list_of_lines, i, current_block_start, list_of_blocks) ==
    IF i > Len(list_of_lines)
    THEN IF current_block_start # 0
         THEN Append(list_of_blocks,
                     SubSeq(list_of_lines, current_block_start,
                            Len(list_of_lines)))
         ELSE list_of_blocks
    ELSE IF list_of_lines[i] = <<>>
    THEN SplitLoop(list_of_lines, i + 1, 0,
                   IF current_block_start # 0
                   THEN Append(list_of_blocks,
                               SubSeq(list_of_lines, current_block_start, i - 1))
                   ELSE list_of_blocks)
    ELSE SplitLoop(list_of_lines, i + 1,
                   IF current_block_start = 0 THEN i ELSE current_block_start,
                   list_of_blocks)

_split_on_blank_lines(list_of_lines) == SplitLoop(list_of_lines, 1, 0, <<>>)

\* the lines read_recipe_file works on: stripped, comment lines removed
StrippedLines(lines) ==
    SelectSeq([i \in DOMAIN lines |-> strip(lines[i])],
              LAMBDA line : ~match_comment_line(line))

\* read_recipe_file, given the lines of the file
read_recipe_file(lines, database) ==
    Bind(SubstituteNames(StrippedLines(lines), 1,
                         {q.name : q \in database.products},
                         {fc.name : fc \in database.facility_categories},
                         EmptyDict),
         LAMBDA r :
             IF r.err # NoError THEN [err |-> r.err, value |-> <<>>]
             ELSE [err |-> NoError,
                   value |-> _split_on_blank_lines(r.file_lines)])

-----------------------------------------------------------------------------
(* The reader session: one call of read_recipe on a generated block *)

MaxLines == 4           \* lines of a generated recipe block

ReaderLines ==
    {<<"1", " ", "A">>,
     <<"2", " ", "B">>,
     <<"^", " ", "1", " ", "s", " ", "(", "S", ")">>,
     <<"^", "1", ".", "5", "s", "(", "S", ")">>,
     <<"<", ">", " ", "N">>,
     <<"x">>}
ReaderBlocks == UNION {[1..n -> ReaderLines] : n \in 0..MaxLines}

\* blocks one line longer, over one line of each kind
LongBlockLines ==
    {<<"1", " ", "A">>,
     <<"^", " ", "1", " ", "s", " ", "(", "S", ")">>,
     <<"<", ">", " ", "N">>,
     <<"x">>}
LongBlocks == [1..(MaxLines + 1) -> LongBlockLines]

MaxFileLines == 3       \* lines of a generated recipe file

\* the products and facility categories loaded before the recipe file is read
ReaderDataBase ==
    DataBase({FacilityCategory(<<"S", "m">>).value,
              FacilityCategory(<<"C", "h">>).value},
             EmptyDict,
             {Product(<<"A", "b">>).value, Product(<<"C", "d">>).value},
             EmptyDict)

FileLines ==
    {<<"1", " ", "A", "b", " ">>,
     <<"1", " ", "A">>,
     <<"^", " ", "1", " ", "s", " ", "(", "S", "m", ")">>,
     <<" ", "^", "2", "s", "(", "S", ")">>,
     <<>>,
     <<"#", "1", " ", "A">>}
Files == UNION {[1..n -> FileLines] : n \in 0..MaxFileLines}

InitReader ==
    /\ InitFactoryIdle
    /\ heap = <<>>
    /\ InitResolverIdle
    /\ db = ReaderDataBase
    /\ last = NoCall

ReadRecipeFile ==
    \E lines \in Files :
        \E r \in {read_recipe_file(lines, db)} :
            /\ last = NoCall
            /\ last' = [op |-> "read_recipe_file", err |-> r.err,
                        lines |-> lines, ret |-> r.value]
            /\ UNCHANGED <<factoryVars, resolverVars, db>>

ReadRecipe ==
    \E recipe_block \in ReaderBlocks \cup LongBlocks :
        \E r \in {read_recipe(recipe_block)} :
            /\ last = NoCall
            /\ last' = [op |-> "read_recipe", err |-> r.err,
                        recipe_block |-> recipe_block, ret |-> r.value]
            /\ UNCHANGED <<factoryVars, resolverVars, db>>

NextReader ==
    \/ ReadRecipe
    \/ ReadRecipeFile

SpecReader == InitReader /\ [][NextReader]_vars

-----------------------------------------------------------------------------
(* Claims about the recipe reader, checked under SpecReader *)

IsIngredientLine(line) == match_ingredient_line(line).matched
IsArrowLine(line) == match_arrow_line(line).matched
IsNametagLine(line) == match_nametag_line(line).matched

\* recipe_block is output_line+ arrow_line input_line+ nametag_line?, with
\* the arrow line at index k and the last input line at index n
HasForm(recipe_block, k, n) ==
    /\ 2 <= k /\ k < n /\ n <= Len(recipe_block)
    /\ \A i \in 1..(k - 1) : IsIngredientLine(recipe_block[i])
    /\ IsArrowLine(recipe_block[k])
    /\ \A i \in (k + 1)..n : IsIngredientLine(recipe_block[i])
    /\ \/ n = Len(recipe_block)
       \/ n + 1 = Len(recipe_block) /\ IsNametagLine(recipe_block[n + 1])

IngredientOf(line) ==
    ProductQuantity(int(match_ingredient_line(line).g1),
                    [name |-> strip(match_ingredient_line(line).g2)])

\* C13: read_recipe accepts every block of the form output_line+ arrow_line
\* input_line+ nametag_line? and returns the Recipe whose outputs are the
\* ingredient lines before the arrow line, whose inputs are those after it,
\* whose period and category come from the arrow line and whose name is the
\* nametag's name when the block ends with a nametag line, the default name
\* (that of the sole output) otherwise.  Blocks of several outputs and no
\* nametag line have no default name and are left to C12.
C13_ReadRecipeAcceptsGrammar ==
    last.op = "read_recipe" =>
        \A k, n \in 1..Len(last.recipe_block) :
            (HasForm(last.recipe_block, k, n)
                 /\ (k = 2 \/ n < Len(last.recipe_block))) =>
                /\ last.err = NoError
                /\ Range(last.ret.outputs) =
                       {IngredientOf(last.recipe_block[i]) : i \in 1..(k - 1)}
                /\ Len(last.ret.outputs) = k - 1
                /\ Range(last.ret.inputs) =
                       {IngredientOf(last.recipe_block[i]) : i \in (k + 1)..n}
                /\ Len(last.ret.inputs) = n - k
                /\ last.ret.period =
                       read_rational(match_arrow_line(last.recipe_block[k]).g1).value
                /\ last.ret.made_in.name =
                       strip(match_arrow_line(last.recipe_block[k]).g2)
                /\ last.ret.name =
                       IF n < Len(last.recipe_block)
                       THEN strip(match_nametag_line(last.recipe_block[n + 1]).g1)
                       ELSE last.ret.outputs[1].product.name

RECURSIVE Flatten(_)
Flatten(blocks) ==
    IF blocks = <<>> THEN <<>> ELSE Head(blocks) \o Flatten(Tail(blocks))

\* the full name the resolver over collection returns for token
FullName(collection, token) == resolver_call(collection, EmptyDict, token)

\* the line the substitution pass is to leave in the place of line
Substituted(line, all_products, all_categories) ==
    LET m == match_ingredient_line(line)
        a == match_arrow_line(line)
    IN  IF m.matched /\ m.g2 \notin all_products
        THEN m.g1 \o <<" ">> \o FullName(all_products, m.g2).ret
        ELSE IF a.matched /\ a.g2 \notin all_categories
        THEN <<"^", " ">> \o a.g1 \o <<" ", "s", " ", "(">>
                 \o FullName(all_categories, a.g2).ret \o <<")">>
        ELSE line

\* does the resolver find a full name for every unknown token of lines
Resolvable(lines, all_products, all_categories) ==
    \A i \in DOMAIN lines :
        LET m == match_ingredient_line(lines[i])
            a == match_arrow_line(lines[i])
        IN  /\ (m.matched /\ m.g2 \notin all_products)
                   => FullName(all_products, m.g2).err = NoError
            /\ (a.matched /\ a.g2 \notin all_categories)
                   => FullName(all_categories, a.g2).err = NoError

\* C14: in the substitution pass of read_recipe_file every ingredient line
\* whose name token is not a known product name and every arrow line whose
\* category token is not a known category name is rewritten in place with
\* the full name the product-scoped, respectively category-scoped, resolver
\* returns; lines whose token is a known name are left unchanged.
C14_UnknownTokensAreSubstituted ==
    LET all_products == {q.name : q \in db.products}
        all_categories == {fc.name : fc \in db.facility_categories}
        lines == IF last.op = "read_recipe_file"
                 THEN StrippedLines(last.lines) ELSE <<>>
    IN  (last.op = "read_recipe_file"
             /\ Resolvable(lines, all_products, all_categories)) =>
            /\ last.err = NoError
            /\ Flatten(last.ret) =
                   SelectSeq([i \in DOMAIN lines |->
                                 Substituted(lines[i], all_products,
                                             all_categories)],
                             LAMBDA line : line # <<>>)

\* does recipe_block match output_line+ arrow_line input_line+ nametag_line?
MatchesGrammar(recipe_block) ==
    \E k, n \in 1..Len(recipe_block) : HasForm(recipe_block, k, n)

\* C21: read_recipe rejects every block that does not match output_line+
\* arrow_line input_line+ nametag_line? in full: a missing or malformed
\* arrow line, a non-ingredient non-nametag line after the inputs and any
\* line following the nametag line all make it fail, so no line of an
\* accepted block is left unconsumed.
C21_ReadRecipeRejectsOtherBlocks ==
    (last.op = "read_recipe" /\ ~MatchesGrammar(last.recipe_block)) =>
        last.err # NoError

-----------------------------------------------------------------------------
(* databases.py: the lookup tables and the queries.  In this part of the    *)
(* model a product and a facility category are their names, as in the       *)
(* factory session.                                                         *)

\* Facility.name, f"{adjective} {category}": the pair stands for the string
Facility_name(facility) == <<facility.adjective, facility.category>>

\* DataBase._make_table_facilities
_make_table_facilities(database) ==
    [database EXCEPT !.lookup_table_facilities =
        [c \in Keys(@) \cup {f.category : f \in Range(database.facilities)} |->
            Get(@, c, {}) \cup {f \in Range(database.facilities) : f.category = c}]]

\* the products of recipe.outputs
OutputProducts(recipe) == {recipe.outputs[i].product : i \in DOMAIN recipe.outputs}

\* DataBase._make_table_recipes that indexes a recipe by its first output only
_make_table_recipes_first_output(database) ==
    [database EXCEPT !.lookup_table_recipes =
        [q \in Keys(@) \cup {r.outputs[1].product : r \in Range(database.recipes)} |->
            Get(@, q, {}) \cup {r \in Range(database.recipes) :
                                   r.outputs[1].product = q}]]

\* DataBase._make_table_recipes
_make_table_recipes(database) ==
    [database EXCEPT !.lookup_table_recipes =
        [q \in Keys(@) \cup UNION {OutputProducts(r) : r \in Range(database.recipes)} |->
            Get(@, q, {}) \cup {r \in Range(database.recipes) :
                                   q \in OutputProducts(r)}]]

\* DataBase.make_tables
make_tables(database) == _make_table_recipes(_make_table_facilities(database))

\* the arguments of find_facilities: a FacilityCategory or a Recipe
CategoryArgument(category) == [kind |-> "FacilityCategory", value |-> category]
RecipeArgument(recipe) == [kind |-> "Recipe", value |-> recipe]

\* DataBase.find_facilities.  The result is the set object the table holds
\* (stored names its key) or a new empty set (stored is FALSE).
find_facilities(database, category) ==
    LET c == IF category.kind = "Recipe" THEN category.value.made_in
             ELSE category.value
    IN  IF c \in Keys(database.lookup_table_facilities)
        THEN [value |-> database.lookup_table_facilities[c],
              stored |-> TRUE, key |-> c]
        ELSE [value |-> {}, stored |-> FALSE, key |-> c]

\* DataBase.find_recipes, likewise
find_recipes(database, recipe_output) ==
    IF recipe_output \in Keys(database.lookup_table_recipes)
    THEN [value |-> database.lookup_table_recipes[recipe_output],
          stored |-> TRUE, key |-> recipe_output]
    ELSE [value |-> {}, stored |-> FALSE, key |-> recipe_output]

-----------------------------------------------------------------------------
(* The database session: a DataBase as load_database leaves it, make_tables *)
(* and queries                                                             *)

OilRefinery == Facility("Oil Refinery", "", FInt(1))
LoadedFacilities == {ArcSmelter, PlaneSmelter, OilRefinery}
FacilityCategories == {"Smelter", "Oil Refinery", "Assembler"}

\* every recipe is stored under its name, every facility under its name
LoadedDataBases ==
    {DataBase(FacilityCategories,
              [n \in {Facility_name(f) : f \in fs} |->
                  CHOOSE f \in fs : Facility_name(f) = n],
              Products,
              [n \in {r.name : r \in rs} |-> CHOOSE r \in rs : r.name = n]) :
        fs \in SUBSET LoadedFacilities, rs \in SUBSET FactoryRecipes}

InitDataBase ==
    /\ InitFactoryIdle
    /\ heap = <<>>
    /\ InitResolverIdle
    /\ db \in LoadedDataBases
    /\ last = NoCall

MakeTables ==
    /\ db' = make_tables(db)
    /\ last' = [op |-> "make_tables", err |-> NoError]
    /\ UNCHANGED <<factoryVars, resolverVars>>

FindFacilitiesOf(category) ==
    /\ last # NoCall
    /\ last' = [op |-> "find_facilities", err |-> NoError,
                category |-> category,
                ret |-> find_facilities(db, category).value]
    /\ UNCHANGED <<factoryVars, resolverVars, db>>

FindFacilities ==
    \/ \E c \in FacilityCategories : FindFacilitiesOf(CategoryArgument(c))
    \/ \E r \in FactoryRecipes : FindFacilitiesOf(RecipeArgument(r))

FindRecipes ==
    \E recipe_output \in Products :
        /\ last # NoCall
        /\ last' = [op |-> "find_recipes", err |-> NoError,
                    recipe_output |-> recipe_output,
                    ret |-> find_recipes(db, recipe_output).value]
        /\ UNCHANGED <<factoryVars, resolverVars, db>>

NextDataBase ==
    \/ MakeTables
    \/ FindFacilities
    \/ FindRecipes

SpecDataBase == InitDataBase /\ [][NextDataBase]_vars

-----------------------------------------------------------------------------
(* Claims about the DataBase, checked under SpecDataBase *)

\* C15: after make_tables, find_recipes(p) returns exactly the set of loaded
\* recipes that have p among their outputs and find_facilities(category or
\* recipe) returns exactly the set of loaded facilities of that category;
\* when nothing matches both return an empty set and raise no error.
C15_QueriesReturnExactSets ==
    /\ last.op = "find_recipes" =>
           /\ last.err = NoError
           /\ last.ret = {r \in Range(db.recipes) :
                             \E i \in DOMAIN r.outputs :
                                 r.outputs[i].product = last.recipe_output}
    /\ last.op = "find_facilities" =>
           /\ last.err = NoError
           /\ last.ret = {f \in Range(db.facilities) :
                             f.category = IF last.category.kind = "Recipe"
                                          THEN last.category.value.made_in
                                          ELSE last.category.value}

\* a query that matches several entities and one that matches none
C15_Witness ==
    \/ /\ last.op = "find_facilities"
       /\ Cardinality(last.ret) = 2
    \/ /\ last.op = "find_recipes"
       /\ last.ret = {}
       /\ db.recipes # EmptyDict

-----------------------------------------------------------------------------
(* user_questions.py and algorithms.py.  A Factory is the record of its     *)
(* fields and of the heap of its crafters; every result carries the Factory *)
(* and the DataBase as the call leaves them.                                *)

FactoryObject(g, cs, rates, ign, h) ==
    [goal |-> g, crafters |-> cs, _rates |-> rates, ignored_rates |-> ign,
     heap |-> h]

\* Factory.__init__
NewFactory(g) == FactoryObject(g, <<>>, EmptyDict, EmptyDict, <<>>)

\* Factory.set_ignored on a Factory record
Factory_set_ignored(factory, product) ==
    Bind(set_ignored(factory.goal, factory.crafters, factory._rates,
                     factory.ignored_rates, factory.heap, product),
         LAMBDA r :
             [err |-> r.err,
              factory |-> [factory EXCEPT !.ignored_rates = r.ignored_rates,
                                          !._rates = r._rates,
                                          !.heap = r.heap]])

\* the loop of Factory.find_crafters, from crafter i on; crafter.rates is
\* read for `p in crafter.rates` first
RECURSIVE FindCraftersLoop(_, _, _, _, _)
FindCraftersLoop(cs, h, product, i, found) ==
    IF i > Len(cs) THEN [err |-> NoError, value |-> found, heap |-> h]
    ELSE Bind(RecipeCrafter_rates(h[cs[i]], 0), LAMBDA read :
         Bind([h EXCEPT ![cs[i]] = read.rc], LAMBDA h1 :
             IF read.err # NoError
             THEN [err |-> read.err, value |-> found, heap |-> h1]
             ELSE FindCraftersLoop(cs, h1, product, i + 1,
                      IF product \in Keys(read.value)
                             /\ FLt(Rate_zero, read.value[product])
                      THEN Append(found, cs[i]) ELSE found)))

\* Factory.find_crafters
find_crafters(factory, product) ==
    FindCraftersLoop(factory.crafters, factory.heap, product, 1, <<>>)

\* the answers of the collaborator at a menu: an index, or -1 for quitting it
Answers == {-1, 0}

\* get_user_choice.  An empty collection returns None without a menu; for
\* any other collection `RadioMenu(strings, pagesize=20)` is evaluated, and
\* neither RadioMenu nor request is bound in user_questions.py: NameError.
\* The answer of the collaborator is never read.
get_user_choice(choices_collection, answer) ==
    IF choices_collection = {}
    THEN [err |-> NoError, is_None |-> TRUE]
    ELSE [err |-> "NameError", is_None |-> TRUE]

\* str(crafter), RecipeCrafter.__str__: the triple stands for the string
RecipeCrafter_str(rc) == <<rc.how_many, Facility_name(rc.facility), rc.recipe.name>>

\* the keys of the dicts new_crafter and args of make_expand_decision
ExpandOptions(existing_crafters, h, possible_recipes) ==
    {[new_crafter |-> FALSE, label |-> RecipeCrafter_str(h[c]), name |-> ""] :
        c \in Range(existing_crafters)}
    \cup {[new_crafter |-> TRUE, label |-> <<FInt(0), <<"", "">>, "">>,
           name |-> r.name] : r \in possible_recipes}

\* make_expand_decision.  get_user_choice returns None or raises, so the
\* ExpandDecision of the last line is never made.
make_expand_decision(factory, database, product, answer) ==
    Bind(find_crafters(factory, product), LAMBDA existing_crafters :
        LET factory1 == [factory EXCEPT !.heap = existing_crafters.heap]
            possible_recipes == find_recipes(database, product).value
            options == ExpandOptions(existing_crafters.value, factory1.heap,
                                     possible_recipes)
            chosen_string == get_user_choice(options, answer)
        IN  IF existing_crafters.err # NoError
            THEN [err |-> existing_crafters.err, is_None |-> TRUE,
                  factory |-> factory1]
            ELSE IF chosen_string.err # NoError
            THEN [err |-> chosen_string.err, is_None |-> TRUE,
                  factory |-> factory1]
            ELSE [err |-> NoError, is_None |-> TRUE, factory |-> factory1])

\* make_facility_decision.  With several facilities get_user_choice is
\* called with the keyword sortby, which it does not take: TypeError.  With
\* one, `possible_facilities.pop()` takes the facility out of the set
\* find_facilities returned, which is the set the lookup table holds.
make_facility_decision(database, recipe, answer) ==
    LET possible_facilities == find_facilities(database, RecipeArgument(recipe))
        failed(e) == [err |-> e, is_None |-> TRUE, value |-> <<>>,
                      db |-> database]
    IN  IF Cardinality(possible_facilities.value) > 1 THEN failed("TypeError")
        ELSE IF Cardinality(possible_facilities.value) # 1
        THEN failed("AssertionError")
        ELSE [err |-> NoError, is_None |-> FALSE,
              value |-> CHOOSE f \in possible_facilities.value : TRUE,
              db |-> IF possible_facilities.stored
                     THEN [database EXCEPT
                              !.lookup_table_facilities[possible_facilities.key]
                                  = {}]
                     ELSE database]

\* make_goal_decision
make_goal_decision(database, answer) ==
    get_user_choice(database.products, answer)

\* the calls factory.set_ignored(product) of find_production_gaps
RECURSIVE IgnoreEach(_, _)
IgnoreEach(factory, products) ==
    IF products = {} THEN [err |-> NoError, factory |-> factory]
    ELSE Bind(Factory_set_ignored(factory, CHOOSE q \in products : TRUE),
              LAMBDA r :
                  IF r.err # NoError THEN r
                  ELSE IgnoreEach(r.factory,
                                  products \ {CHOOSE q \in products : TRUE}))

\* find_production_gaps that keeps the gaps no recipe produces
find_production_gaps_unverified(factory, database) ==
    Bind(negative_rates(factory.goal, factory.crafters, factory._rates,
                        factory.ignored_rates, factory.heap),
         LAMBDA possible_gaps :
             [err |-> possible_gaps.err,
              value |-> {ProductQuantity(Rate_neg(possible_gaps.value[q]), q) :
                            q \in Keys(possible_gaps.value)},
              factory |-> [factory EXCEPT !._rates = possible_gaps._rates,
                                          !.heap = possible_gaps.heap]])

\* find_production_gaps; the list verified_gaps is modelled as a set
find_production_gaps(factory, database) ==
    Bind(negative_rates(factory.goal, factory.crafters, factory._rates,
                        factory.ignored_rates, factory.heap),
         LAMBDA possible_gaps :
             LET factory1 == [factory EXCEPT !._rates = possible_gaps._rates,
                                             !.heap = possible_gaps.heap]
                 unknown == {q \in Keys(possible_gaps.value) :
                                Cardinality(find_recipes(database, q).value) = 0}
                 ignoring == IgnoreEach(factory1, unknown)
             IN  IF possible_gaps.err # NoError
                 THEN [err |-> possible_gaps.err, value |-> {},
                       factory |-> factory1]
                 ELSE [err |-> ignoring.err,
                       value |-> {ProductQuantity(Rate_neg(possible_gaps.value[q]), q) :
                                     q \in Keys(possible_gaps.value) \ unknown},
                       factory |-> ignoring.factory])

\* make_production_decision; offered is the collection handed to the menu
make_production_decision(factory, database, answer) ==
    Bind(find_production_gaps(factory, database), LAMBDA possible_targets :
        LET choice == get_user_choice(possible_targets.value, answer)
        IN  [err |-> IF possible_targets.err # NoError
                     THEN possible_targets.err ELSE choice.err,
             is_None |-> TRUE,
             offered |-> possible_targets.value,
             factory |-> possible_targets.factory])

\* the new-crafter branch of expand_factory_once for a recipe and a facility:
\* RecipeCrafter.with_goal(recipe, facility, objective), then
\* factory.connect_crafter(new_crafter)
new_crafter_step(factory, recipe, facility, objective) ==
    Bind(with_goal(recipe, facility, objective), LAMBDA new_crafter :
        IF new_crafter.err # NoError
        THEN [err |-> new_crafter.err, factory |-> factory]
        ELSE Bind(Append(factory.heap, new_crafter.rc), LAMBDA h :
             Bind(connect_crafter(factory.goal, factory.crafters,
                                  factory._rates, h, Len(h)),
                  LAMBDA r :
                      [err |-> r.err,
                       factory |-> [factory EXCEPT !.crafters = r.crafters,
                                                   !._rates = r._rates,
                                                   !.heap = r.heap]])))

\* the existing-crafter branch: factory.upgrade_crafter(crafter, objective)
expand_crafter_step(factory, crafter, objective) ==
    Bind(upgrade_crafter(factory.goal, factory.crafters, factory._rates,
                         factory.heap, crafter, objective),
         LAMBDA r :
             [err |-> r.err,
              factory |-> [factory EXCEPT !._rates = r._rates,
                                          !.heap = r.heap]])

\* expand_factory_once.  make_expand_decision returns None or raises, so
\* the branches for a new crafter and for an existing crafter are never
\* entered.
expand_factory_once(factory, database, objective, answer) ==
    Bind(make_expand_decision(factory, database, objective.product, answer),
         LAMBDA expand_decision :
             IF expand_decision.err # NoError
             THEN [err |-> expand_decision.err,
                   factory |-> expand_decision.factory]
             ELSE Factory_set_ignored(expand_decision.factory,
                                      objective.product))

\* Factory.set_all_ignored on a Factory record
Factory_set_all_ignored(factory) ==
    Bind(set_all_ignored(factory.goal, factory.crafters, factory._rates,
                         factory.ignored_rates, factory.heap),
         LAMBDA r :
             [err |-> r.err,
              factory |-> [factory EXCEPT !.ignored_rates = r.ignored_rates,
                                          !._rates = r._rates,
                                          !.heap = r.heap]])

\* the `while True` loop of generate_factory on a Factory.
\* make_production_decision returns None or raises, so the loop ends in its
\* first iteration and expand_factory_once is never called from it.
GapLoop(factory, database, answer) ==
    Bind(make_production_decision(factory, database, answer), LAMBDA target :
        IF target.err # NoError
        THEN [err |-> target.err, factory |-> target.factory]
        ELSE Factory_set_all_ignored(target.factory))

\* generate_factory.  make_goal_decision returns None or raises, so no
\* Factory is made.
generate_factory(database, answer) ==
    [err |-> make_goal_decision(database, answer).err, is_None |-> TRUE]

-----------------------------------------------------------------------------
(* The expansion session: a DataBase after create_database, one Factory,    *)
(* its crafters, and calls of the functions of algorithms.py               *)

\* a recipe that puts out less Hydrogen than it takes in
HydrogenLoopRecipe ==
    RecipeValue("Hydrogen Loop",
        <<ProductQuantity(1, "Hydrogen")>>,
        <<ProductQuantity(2, "Hydrogen"), ProductQuantity(1, "Refined Oil")>>,
        FInt(4), "Oil Refinery")

Objectives == {ProductQuantity(FInt(2), "Iron Ingot"),
               ProductQuantity(FInt(1), "Hydrogen"),
               ProductQuantity(FInt(1), "Iron Ore")}

\* the DataBases of the session: no, one or two Smelters, and the goal
\* product with or without a recipe producing it
ExpansionDataBases ==
    {make_tables(database) :
        database \in {d \in LoadedDataBases :
                         /\ Range(d.facilities) \in
                                {{OilRefinery}, {OilRefinery, ArcSmelter},
                                 {OilRefinery, ArcSmelter, PlaneSmelter}}
                         /\ Range(d.recipes) \in
                                {{XRayCrackingRecipe}, FactoryRecipes}}}
    \cup {make_tables(
              DataBase(FacilityCategories,
                       Facility_name(OilRefinery) :> OilRefinery,
                       Products,
                       XRayCrackingRecipe.name :> XRayCrackingRecipe
                           @@ HydrogenLoopRecipe.name :> HydrogenLoopRecipe))}

\* the goals of the session: those of the factory session and one of
\* Hydrogen, which two recipes list as an output
ExpansionGoals == Goals \cup {ProductQuantity(FInt(1), "Hydrogen")}

TheFactory == FactoryObject(goal, crafters, f_rates, ignored_rates, heap)

\* the Factory of the session after a call
FactoryBecomes(factory) ==
    /\ crafters' = factory.crafters
    /\ f_rates' = factory._rates
    /\ ignored_rates' = factory.ignored_rates
    /\ heap' = factory.heap
    /\ UNCHANGED goal

InitAlgorithms ==
    /\ goal \in ExpansionGoals
    /\ crafters = <<>>
    /\ f_rates = EmptyDict
    /\ ignored_rates = EmptyDict
    /\ heap = <<>>
    /\ InitResolverIdle
    /\ db \in ExpansionDataBases
    /\ last = NoCall

FindProductionGaps ==
    \E r \in {find_production_gaps(TheFactory, db)} :
        /\ FactoryBecomes(r.factory)
        /\ last' = [op |-> "find_production_gaps", err |-> r.err,
                    ret |-> r.value,
                    before |-> [rates |-> Factory_rates(goal, crafters, f_rates,
                                                        heap)._rates,
                                ignored_rates |-> ignored_rates]]
        /\ UNCHANGED <<resolverVars, db>>

MakeProductionDecision ==
    \E answer \in Answers :
        \E r \in {make_production_decision(TheFactory, db, answer)} :
            /\ FactoryBecomes(r.factory)
            /\ last' = [op |-> "make_production_decision", err |-> r.err,
                        answer |-> answer, offered |-> r.offered,
                        before |-> [rates |-> Factory_rates(goal, crafters,
                                                            f_rates, heap)._rates,
                                    ignored_rates |-> ignored_rates]]
            /\ UNCHANGED <<resolverVars, db>>

ExpandFactoryOnce ==
    \E objective \in Objectives, answer \in Answers :
        \E r \in {expand_factory_once(TheFactory, db, objective, answer)} :
            /\ FactoryBecomes(r.factory)
            /\ last' = [op |-> "expand_factory_once", err |-> r.err,
                        objective |-> objective, answer |-> answer,
                        before |-> TheFactory]
            /\ UNCHANGED <<resolverVars, db>>

MakeFacilityDecision ==
    \E recipe \in FactoryRecipes, answer \in Answers :
        \E r \in {make_facility_decision(db, recipe, answer)} :
            /\ db' = r.db
            /\ last' = [op |-> "make_facility_decision", err |-> r.err,
                        recipe |-> recipe, answer |-> answer,
                        is_None |-> r.is_None, ret |-> r.value,
                        possible_facilities |->
                            find_facilities(db, RecipeArgument(recipe)).value]
            /\ UNCHANGED <<factoryVars, resolverVars>>

RunGapLoop ==
    \E answer \in Answers :
        \E r \in {GapLoop(TheFactory, db, answer)} :
            /\ FactoryBecomes(r.factory)
            /\ last' = [op |-> "gap_loop", err |-> r.err, answer |-> answer,
                        gaps |-> find_production_gaps(TheFactory, db).value]
            /\ UNCHANGED <<resolverVars, db>>

GenerateFactory ==
    \E answer \in Answers :
        \E r \in {generate_factory(db, answer)} :
            /\ last' = [op |-> "generate_factory", err |-> r.err,
                        answer |-> answer, is_None |-> r.is_None]
            /\ UNCHANGED <<factoryVars, resolverVars, db>>

NextAlgorithms ==
    \/ NewCrafter({IronIngotRecipe}, FactoryFacilities, {FInt(2)})
    \/ ConnectCrafter
    \/ FindProductionGaps
    \/ MakeProductionDecision
    \/ ExpandFactoryOnce
    \/ MakeFacilityDecision
    \/ RunGapLoop
    \/ GenerateFactory

SpecAlgorithms == InitAlgorithms /\ [][NextAlgorithms]_vars

-----------------------------------------------------------------------------
(* Claims about the expansion algorithm, checked under SpecAlgorithms *)

\* C16: once the indices are built the DataBase is read-only: no step of the
\* expansion algorithm (gap computation, expand decision, facility decision
\* including the auto-select of a sole facility) changes its entity sets or
\* its two indices, so a repeated query returns the same set.
C16_DataBaseIsReadOnly == [][db' = db]_vars

\* the products with a strictly negative, non-ignored rate in a rate map
Gaps(rates, ign) ==
    {q \in Keys(rates) : FLt(rates[q], Rate_zero) /\ ~Get(ign, q, FALSE)}

\* C17: when the gap loop of generate_factory ends, because no gaps remained
\* or because the collaborator quit at the gap choice, a Factory is returned
\* in which every product of strictly negative rate is marked ignored:
\* negative_rates() of it is empty.
C17_LoopEndsWithEveryDeficitIgnored ==
    (last.op = "gap_loop" /\ (last.gaps = {} \/ last.answer = -1)) =>
        /\ last.err = NoError
        /\ Gaps(FactoryRateMap, ignored_rates) = {}
        /\ negative_rates(goal, crafters, f_rates, ignored_rates, heap).value
               = EmptyDict

\* is there a loaded recipe with product among its outputs
HasRecipe(product) ==
    \E r \in Range(db.recipes) :
        \E i \in DOMAIN r.outputs : r.outputs[i].product = product

C19_CancelIgnoresOnlyTheProduct ==
    (/\ last.op = "expand_factory_once"
     /\ last.answer = -1
     /\ last.objective.product \in
            Gaps(last.before._rates, last.before.ignored_rates)) =>
        /\ last.err = NoError
        /\ ignored_rates = Put(last.before.ignored_rates,
                               last.objective.product, TRUE)
        /\ crafters = last.before.crafters
        /\ \A c \in DOMAIN heap :
               heap[c].how_many = last.before.heap[c].how_many
        /\ f_rates = last.before._rates

\* C20: the facility decision for a recipe auto-selects the facility when
\* exactly one facility is valid for the recipe's category and offers the
\* valid facilities as a choice when there are several, a cancellation of
\* which returns no facility; in each case the step completes without an
\* unhandled failure.
C20_FacilityDecisionCompletes ==
    (last.op = "make_facility_decision"
         /\ Cardinality(last.possible_facilities) >= 1) =>
        /\ last.err = NoError
        /\ Cardinality(last.possible_facilities) = 1 =>
               ~last.is_None /\ last.possible_facilities = {last.ret}
        /\ (Cardinality(last.possible_facilities) > 1 /\ last.answer = -1) =>
               last.is_None
        /\ (Cardinality(last.possible_facilities) > 1 /\ last.answer # -1) =>
               ~last.is_None /\ last.ret \in last.possible_facilities

\* the net rate the recipe has for product on the facility at multiplicity 1
UnitNetRate(recipe, facility, product) ==
    Get(_compute_rates(RecipeCrafter(recipe, facility, FInt(1)).rc), product,
        Rate_zero)

\* is product no longer a deficit of the factory an expansion step left
GapClosed(step, product) ==
    /\ step.err = NoError
    /\ \E rates \in {Factory_rates(step.factory.goal, step.factory.crafters,
                                    step.factory._rates, step.factory.heap)} :
           /\ rates.err = NoError
           /\ Get(rates._rates, product, Rate_zero) = Rate_zero
    /\ \E negatives \in {negative_rates(step.factory.goal,
                                         step.factory.crafters,
                                         step.factory._rates,
                                         step.factory.ignored_rates,
                                         step.factory.heap)} :
           /\ negatives.err = NoError
           /\ product \notin Keys(negatives.value)

\* C22: in the gap loop, a 'new crafter' step (with_goal against the current
\* deficit, then connect_crafter) and an 'expand crafter' step
\* (upgrade_crafter with the current deficit as delta) for the gap product p
\* complete and leave the Factory's net rate for p exactly zero, so p is not
\* in negative_rates() right after the step.  The recipes and crafters are
\* those with a strictly positive net rate for p.
C22_ExpansionStepClosesTheGap ==
    \A target \in find_production_gaps(TheFactory, db).value :
        /\ \A recipe \in find_recipes(db, target.product).value :
               \A facility \in find_facilities(db, RecipeArgument(recipe)).value :
                   FLt(Rate_zero, UnitNetRate(recipe, facility, target.product))
                       => GapClosed(new_crafter_step(TheFactory, recipe,
                                                     facility, target),
                                    target.product)
        /\ \A crafter \in Range(crafters) :
               FLt(Rate_zero, NetRate(heap[crafter], target.product))
                   => GapClosed(expand_crafter_step(TheFactory, crafter, target),
                                target.product)

\* C23: every option offered at the 'how to produce p' choice for a gap
\* product p can be carried out: each offered existing crafter has a
\* strictly positive net rate for p, and each offered recipe, taken from the
\* index of recipes by output product, has a strictly positive unit net
\* rate for p on every valid facility, also when it lists p both as an
\* output and as an input.
C23_OfferedOptionsProduce ==
    \A target \in find_production_gaps(TheFactory, db).value :
        /\ \A recipe \in find_recipes(db, target.product).value :
               \A facility \in find_facilities(db, RecipeArgument(recipe)).value :
                   FLt(Rate_zero, UnitNetRate(recipe, facility, target.product))
        /\ \A crafter \in Range(find_crafters(TheFactory, target.product).value) :
               FLt(Rate_zero, NetRate(heap[crafter], target.product))

====
